---- MODULE Spec2Model ----
(***************************************************************************)
(* WHOOP_APP: the credential vault (Project/utils/tokenStorage.js), the    *)
(* per-user strain poller (Project/worker/strainPoller.js), the WHOOP API  *)
(* helper (utils/whoop.js, current version) and the routes of              *)
(* Project/app.js that drive them.                                         *)
(*                                                                         *)
(* JavaScript runs one callback at a time: every action below is the       *)
(* synchronous stretch of code between two awaits.  A handler that awaits  *)
(* is a task, kept in the bag `tasks` with the place it is suspended at    *)
(* (pc) and the locals that are live across the await.                     *)
(***************************************************************************)
EXTENDS Integers, Sequences, FiniteSets, Bags, TLC

\* ----------------------------------------------------------------- bounds
MaxTasks == 2       \* handlers suspended at an await at the same time
MaxTicks == 1       \* seconds the clock advances
MaxGen == 2         \* token pairs the authorization server issues per user
MaxConns == 2       \* listeners registered at the same time
MaxFrames == 2      \* samples emitted to one listener

\* -------------------------------------------------------------- constants
Users == {"u1", "u2"}
MsPerSecond == 1000                 \* expires_in is in seconds
DefaultTtl == 1000 * 60 * 60 * 24   \* set(): expiresAt default, 24 h
ExpiresInChoices == {0, 3600}    \* expires_in values the server answers

\* JavaScript null (a record, so that it compares with stored objects)
Null == [null |-> TRUE]

\* ------------------------------------------------------------------ state
VARIABLES
    store,          \* user_tokens table: userId -> decrypted object, or Null
    now,            \* Date.now(), ms
    srvGen,         \* authorization server: the refresh token it accepts, per user
    tasks,          \* bag of suspended handlers
    activeTimers,   \* strainPoller.activeTimers: userId -> handle, 0 = no entry
    armed,          \* setInterval timers not yet cleared: {[h, user]}
    purged,         \* users whose record a rejected refresh deleted; reset by a new authorization
    listeners,      \* strainEmitter's 'strain' listeners, in the order they were added
    ev              \* what the last step did (return values, log lines)

vars == <<store, now, srvGen, tasks, activeTimers, armed, purged, listeners, ev>>

\* ------------------------------------------------------- JavaScript objects
\* {...a, ...b}
Spread(a, b) ==
    [f \in (DOMAIN a) \cup (DOMAIN b) |-> IF f \in DOMAIN b THEN b[f] ELSE a[f]]

\* o.f is truthy (a number field: neither undefined nor 0)
Truthy(o, f) == f \in DOMAIN o /\ o[f] # 0

\* tokenData.expiresAt || dflt
OrElse(o, f, dflt) == IF Truthy(o, f) THEN o[f] ELSE dflt

\* !!tokenData?.strainPollingEnabled
Enabled(o) ==
    o # Null /\ "strainPollingEnabled" \in DOMAIN o /\ o.strainPollingEnabled

\* ---------------------------------------------------------------- events
NoEvent ==
    [type |-> "init", user |-> "", ret |-> "none", cred |-> Null, out |-> "none",
     arg |-> <<>>]

\* a step of `type` for user u that returns nothing and ends no cycle
Event(type, u) == [NoEvent EXCEPT !.type = type, !.user = u]

\* ------------------------------------------------------------------ tasks
Task(kind, u, pc) ==
    [kind |-> kind, user |-> u, pc |-> pc, td |-> Null, data |-> Null, err |-> "none"]

NTasks == BagCardinality(tasks)
Add(t) == tasks (+) SetToBag({t})
Remove(t) == tasks (-) SetToBag({t})
Replace(t, t2) == (tasks (-) SetToBag({t})) (+) SetToBag({t2})
At(pc) == {t \in BagToSet(tasks) : t.pc = pc}

\* ------------------------------------------------------------- scheduler
\* The scheduler's functions act on st = [activeTimers, armed, tasks] and give
\* the state after the call; the actions below apply them.
Sched == [activeTimers |-> activeTimers, armed |-> armed, tasks |-> tasks]

\* setInterval returns a handle no armed timer has
NewHandle(armedSet) ==
    CHOOSE h \in 1..(Cardinality(armedSet) + 1) :
        /\ \A tm \in armedSet : tm.h # h
        /\ \A k \in 1..(h - 1) : \E tm \in armedSet : tm.h = k

\* pollUserStrain(userId) up to its first await: makeWhoopApiCall ->
\* checkAndRefresh -> tokenStorage.get -> getRaw -> pool.query
pollUserStrain(st, u) ==
    [st EXCEPT !.tasks = @ (+) SetToBag({Task("cycle", u, "getRaw")})]

\* startUserPolling without its activeTimers.has(userId) test
startUserPollingUnguarded(st, u) ==
    LET polled == pollUserStrain(st, u)
        handle == NewHandle(st.armed)
    IN  [polled EXCEPT !.armed = @ \cup {[h |-> handle, user |-> u]},
                       !.activeTimers[u] = handle]

startUserPolling(st, u) ==
    IF st.activeTimers[u] # 0
    THEN st
    ELSE LET polled == pollUserStrain(st, u)
             handle == NewHandle(st.armed)
         IN  [polled EXCEPT !.armed = @ \cup {[h |-> handle, user |-> u]},
                            !.activeTimers[u] = handle]

\* stopUserPolling without its clearInterval(handle)
stopUserPollingNoClear(st, u) ==
    [st EXCEPT !.activeTimers[u] = 0]

\* a stopUserPolling that cancels every user's timer
stopUserPollingAll(st, u) ==
    [st EXCEPT !.armed = {}, !.activeTimers = [v \in Users |-> 0]]

stopUserPolling(st, u) ==
    LET handle == st.activeTimers[u]
    IN  IF handle = 0
        THEN st
        ELSE [st EXCEPT !.armed = {tm \in @ : tm.h # handle},
                        !.activeTimers[u] = 0]

RECURSIVE bootstrap(_, _)
bootstrap(st, userIds) ==
    IF userIds = <<>>
    THEN st
    ELSE bootstrap(startUserPolling(st, Head(userIds)), Tail(userIds))

\* shutdown without its clearInterval(handle) loop
shutdownNoClear(st) ==
    [st EXCEPT !.activeTimers = [u \in Users |-> 0]]

shutdown(st) ==
    [st EXCEPT !.armed = {tm \in @ : \A u \in Users : st.activeTimers[u] # tm.h},
               !.activeTimers = [u \in Users |-> 0]]

\* a catch block that gives up on the user
pollCatchStops(st, u) == [st |-> stopUserPolling(st, u), out |-> "null"]

\* pollUserStrain's catch block: the cycle ends by returning null
pollCatch(st, u) == [st |-> st, out |-> "null"]

Apply(st) ==
    /\ activeTimers' = st.activeTimers
    /\ armed' = st.armed
    /\ tasks' = st.tasks

Cycles(bag, u) ==
    LET cs == {t \in BagToSet(bag) : t.kind = "cycle" /\ t.user = u}
        RECURSIVE Sum(_)
        Sum(S) == IF S = {} THEN 0
                  ELSE LET x == CHOOSE x \in S : TRUE
                       IN  CopiesIn(x, bag) + Sum(S \ {x})
    IN  Sum(cs)

\* ------------------------------------------------------------- broadcast
\* A listener of strainEmitter: `user` is the req.user.userId its function
\* compares with, `throws` whether its function throws when it delivers,
\* `during` what else it does then ("off": it removes itself, "on": it adds
\* a listener for its user), `frames` what it has written to its connection,
\* `due` the samples emitted for its user while it was registered, `open`
\* whether the connection it writes to is open.
Listener(u, throws, during) ==
    [user |-> u, throws |-> throws, during |-> during, frames |-> <<>>, due |-> <<>>,
     open |-> TRUE]

\* send without its userId === req.user.userId test
sendUnfiltered(l, userId, data) == [l EXCEPT !.frames = Append(@, data)]

\* a send that puts the newest sample first
sendPrepend(l, userId, data) ==
    IF userId = l.user
    THEN [l EXCEPT !.frames = <<data>> \o @]
    ELSE l

\* send({ userId, data }) of the listener l: res.write('data:' + ... )
send(l, userId, data) ==
    IF userId = l.user
    THEN [l EXCEPT !.frames = Append(@, data)]
    ELSE l

\* seq without the entries at the indices in `off`
RECURSIVE Without(_, _, _)
Without(seq, off, i) ==
    IF i > Len(seq) THEN <<>>
    ELSE (IF i \in off THEN <<>> ELSE <<seq[i]>>) \o Without(seq, off, i + 1)

\* the sample is due to every listener of userId registered at the emit
Due(ls, userId, data) ==
    [i \in DOMAIN ls |->
        IF ls[i].user = userId THEN [ls[i] EXCEPT !.due = Append(@, data)] ELSE ls[i]]

\* an emit that walks the live listener array by index: a listener that
\* removes itself shifts its successor into its place
RECURSIVE liveFrom(_, _, _, _)
liveFrom(live, k, userId, data) ==
    IF k > Len(live)
    THEN [listeners |-> live, threw |-> FALSE]
    ELSE LET l == live[k]
             mine == userId = l.user
             sent == [live EXCEPT ![k] = send(l, userId, data)]
         IN  IF mine /\ l.throws
             THEN [listeners |-> live, threw |-> TRUE]
             ELSE liveFrom(IF mine /\ l.during = "off" THEN Without(sent, {k}, 1)
                           ELSE IF mine /\ l.during = "on"
                                THEN Append(sent, Listener(l.user, FALSE, "none"))
                                ELSE sent,
                           k + 1, userId, data)

emitLive(ls, userId, data) == liveFrom(ls, 1, userId, data)

\* the calls of one emit: d.snap is the copy of the listener array that emit
\* walks, d.off the entries removed meanwhile, d.on the listeners added
RECURSIVE callAll(_, _, _, _)
callAll(d, i, userId, data) ==
    IF i > Len(d.snap)
    THEN d
    ELSE LET l == d.snap[i]
             mine == userId = l.user
         IN  IF mine /\ l.throws
             THEN [d EXCEPT !.threw = TRUE]
             ELSE callAll([d EXCEPT
                             !.snap[i] = send(l, userId, data),
                             !.off = IF mine /\ l.during = "off" THEN @ \cup {i} ELSE @,
                             !.on = IF mine /\ l.during = "on"
                                    THEN Append(@, Listener(l.user, FALSE, "none"))
                                    ELSE @],
                          i + 1, userId, data)

\* strainEmitter.emit('strain', { userId, data }): the listeners registered
\* at the call are called in the order they were added, whatever a listener
\* adds or removes meanwhile; what a listener throws leaves emit at once
emit(ls, userId, data) ==
    LET d == callAll([snap |-> ls, off |-> {}, on |-> <<>>, threw |-> FALSE],
                     1, userId, data)
    IN  [listeners |-> Without(d.snap, d.off, 1) \o d.on, threw |-> d.threw]

\* ------------------------------------------------------------ TokenStorage
\* set(): the object that is encrypted and written
DataToEncrypt(tokenData, t) ==
    Spread(tokenData,
           [updatedAt |-> t,
            expiresAt |-> OrElse(tokenData, "expiresAt", t + DefaultTtl)])

\* refreshedTokenData with expires_in taken for milliseconds
RefreshedNoScale(tokenData, data, t) ==
    Spread(tokenData,
           [accessToken |-> data.access_token,
            refreshToken |-> data.refresh_token,
            expiresAt |-> t + data.expires_in])

\* refreshToken(): refreshedTokenData
Refreshed(tokenData, data, t) ==
    Spread(tokenData,
           [accessToken |-> data.access_token,
            refreshToken |-> data.refresh_token,
            expiresAt |-> t + data.expires_in * MsPerSecond])

\* a set() whose failed query has written the row all the same
upsertedAnyway(row, data, ok) == data

\* set(): the row after INSERT ... ON CONFLICT DO UPDATE (ok: it succeeded)
upserted(row, data, ok) == IF ok THEN data ELSE row

\* get(): the expiry test
IsExpired(tokenData, t) ==
    Truthy(tokenData, "expiresAt") /\ tokenData.expiresAt < t

\* a row whose encrypted_data does not decrypt (wrong key, failed auth tag)
Corrupt == [corrupt |-> TRUE]

\* a decrypt that accepts every row
decryptsAlways(enc) == TRUE

\* decrypt(encryptedObj) returns (it throws otherwise)
decrypts(enc) == enc # Corrupt

\* getRaw(): what it returns for the row `enc` (ok: the SELECT succeeded);
\* a failed query and a failed decrypt both end in its catch block
getRaw(ok, enc) ==
    IF ok /\ enc # Null /\ decrypts(enc) THEN enc ELSE Null

\* the startup loop collecting every user whose row decrypts
enabledUsersAll(allTokens) ==
    {u \in Users : allTokens[u] # Null /\ decrypts(allTokens[u])}

\* app.listen callback: the users pushed to enabledUsers
enabledUsers(allTokens) ==
    {u \in Users : /\ allTokens[u] # Null
                   /\ decrypts(allTokens[u])
                   /\ Enabled(allTokens[u])}

\* ------------------------------------------------------------------- Init
\* The process starts at StartTime.  The table holds what an earlier run left:
\* no row, or the row an authorization at MsPerSecond wrote (so it has
\* expired, expires at this very millisecond, or is valid for an hour); the
\* server accepts that pair.
StartTime == 2 * MsPerSecond

InitialRecords ==
    {Null} \cup
    {DataToEncrypt([accessToken |-> 1, refreshToken |-> 1,
                    expiresAt |-> MsPerSecond + x * MsPerSecond], MsPerSecond) :
        x \in ExpiresInChoices \cup {1}}

Unexpired == {r \in InitialRecords : r = Null \/ ~IsExpired(r, StartTime)}

\* rows(u): the rows user u may start with
InitOf(rows) ==
    /\ store \in [Users -> UNION {rows[u] : u \in Users}]
    /\ \A u \in Users : store[u] \in rows[u]
    /\ now = StartTime
    /\ srvGen = [u \in Users |-> IF store[u] = Null THEN 0 ELSE 1]
    /\ tasks = EmptyBag
    /\ activeTimers = [u \in Users |-> 0]
    /\ armed = {}
    /\ purged = {}
    /\ listeners = <<>>
    /\ ev = NoEvent

\* -------------------------------------------------------- scheduler calls
StartUserPolling(u) ==
    /\ activeTimers[u] # 0 \/ NTasks < MaxTasks
    /\ Apply(startUserPolling(Sched, u))
    /\ ev' = [Event("start", u) EXCEPT
                 !.out = IF activeTimers[u] # 0 THEN "already" ELSE "started"]
    /\ UNCHANGED <<store, now, srvGen, purged, listeners>>

StopUserPolling(u) ==
    /\ Apply(stopUserPolling(Sched, u))
    /\ ev' = [Event("stop", u) EXCEPT
                 !.out = IF activeTimers[u] # 0 THEN "stopped" ELSE "absent"]
    /\ UNCHANGED <<store, now, srvGen, purged, listeners>>

BootstrapLists ==
    {<<>>} \cup {<<a>> : a \in Users} \cup {<<a, b>> : a \in Users, b \in Users}

Bootstrap(userIds) ==
    LET st == bootstrap(Sched, userIds)
    IN  /\ BagCardinality(st.tasks) <= MaxTasks
        /\ Apply(st)
        /\ ev' = [Event("bootstrap", "") EXCEPT
                     !.arg = userIds,
                     !.out = IF \A u \in Users : activeTimers[u] = 0
                             THEN "fresh" ELSE "merged"]
        /\ UNCHANGED <<store, now, srvGen, purged, listeners>>

Shutdown ==
    /\ Apply(shutdown(Sched))
    /\ ev' = [Event("shutdown", "") EXCEPT
                 !.out = IF armed # {} THEN "stopped" ELSE "absent"]
    /\ UNCHANGED <<store, now, srvGen, purged, listeners>>

\* the interval of an armed timer elapses: () => pollUserStrain(userId)
TimerFire(tm) ==
    /\ tm \in armed
    /\ NTasks < MaxTasks
    /\ Apply(pollUserStrain(Sched, tm.user))
    /\ ev' = Event("timer", tm.user)
    /\ UNCHANGED <<store, now, srvGen, purged, listeners>>

\* ---------------------------------------------------------------- routes
\* a guard that only tests req.user
hasUser(user) == user # Null

\* !(!req.user || !req.user.isAuthenticated), the first test of every route
isAuthenticated(user) == user # Null /\ user.isAuthenticated

\* return res.status(401)... / res.sendStatus(401)
Refused(route) ==
    /\ ev' = [Event("refused", "") EXCEPT !.out = "401", !.arg = <<route>>]
    /\ UNCHANGED <<store, now, srvGen, tasks, activeTimers, armed, purged, listeners>>

\* GET /settings/strain-polling: await tokenStorage.get(userId)
GetSettings(u) ==
    /\ NTasks < MaxTasks
    /\ tasks' = Add(Task("req", u, "getRaw"))
    /\ ev' = Event("get", u)
    /\ UNCHANGED <<store, now, srvGen, activeTimers, armed, purged, listeners>>

\* GET /current-strain up to its first await: makeWhoopApiCall ->
\* checkAndRefresh -> tokenStorage.get -> getRaw -> pool.query
CurrentStrain(u) ==
    /\ NTasks < MaxTasks
    /\ tasks' = Add(Task("strain", u, "getRaw"))
    /\ ev' = Event("get_strain", u)
    /\ UNCHANGED <<store, now, srvGen, activeTimers, armed, purged, listeners>>

\* POST /settings/strain-polling up to await tokenStorage.set(...)
PostSettings(u, enabled) ==
    /\ NTasks < MaxTasks
    /\ tasks' = Add([Task("settings", u, "set") EXCEPT
                        !.data = DataToEncrypt([strainPollingEnabled |-> enabled], now)])
    /\ ev' = Event("post", u)
    /\ UNCHANGED <<store, now, srvGen, activeTimers, armed, purged, listeners>>

\* OAuth callback, getUser(): the server has issued a new pair; await set(...)
Authorize(u, expires_in) ==
    /\ NTasks < MaxTasks
    /\ srvGen[u] < MaxGen
    /\ srvGen' = [srvGen EXCEPT ![u] = @ + 1]
    /\ tasks' = Add([Task("auth", u, "set") EXCEPT
                        !.data = DataToEncrypt(
                            [accessToken |-> srvGen[u] + 1,
                             refreshToken |-> srvGen[u] + 1,
                             expiresAt |-> now + expires_in * MsPerSecond], now)])
    /\ ev' = Event("authorize", u)
    /\ UNCHANGED <<store, now, activeTimers, armed, purged, listeners>>

\* ------------------------------------------------- TokenStorage, resumed
\* get() returns `result` to its caller, which runs on to its next await
GetReturns(t, type, result) ==
    LET u == t.user
        ret == IF result = Null THEN "null" ELSE "cred"
        e == [Event(type, u) EXCEPT !.ret = ret, !.cred = result]
    IN  IF t.kind = "cycle"
        THEN IF result = Null
             \* checkAndRefresh throws, makeWhoopApiCall rethrows
             THEN LET c == pollCatch([Sched EXCEPT !.tasks = Remove(t)], u)
                  IN  Apply(c.st) /\ ev' = [e EXCEPT !.out = c.out]
             \* fetch(`${WHOOP_API_HOSTNAME}${endpoint}`)
             ELSE /\ tasks' = Replace(t, Task("cycle", u, "fetch"))
                  /\ ev' = e
                  /\ UNCHANGED <<activeTimers, armed>>
        ELSE IF t.kind = "strain"
        THEN IF result = Null
             \* GET /current-strain: makeWhoopApiCall throws, res.status(500)
             THEN /\ tasks' = Remove(t)
                  /\ ev' = [e EXCEPT !.out = "500"]
                  /\ UNCHANGED <<activeTimers, armed>>
             ELSE /\ tasks' = Replace(t, Task("strain", u, "fetch"))
                  /\ ev' = e
                  /\ UNCHANGED <<activeTimers, armed>>
        \* GET /settings/strain-polling: res.json({ enabled }) with
        \* enabled = !!tokenData?.strainPollingEnabled
        ELSE /\ tasks' = Remove(t)
             /\ ev' = IF t.kind = "req"
                      THEN [e EXCEPT !.out = IF Enabled(result) THEN "enabled" ELSE "disabled"]
                      ELSE e
             /\ UNCHANGED <<activeTimers, armed>>

\* getRaw(): the SELECT answers (row: the query succeeded)
GetRawDone(t, row) ==
    /\ t \in At("getRaw")
    /\ LET tokenData == getRaw(row, store[t.user])
       IN  IF tokenData # Null /\ IsExpired(tokenData, now)
           \* refreshToken(): fetch(.../oauth/oauth2/token)
           THEN /\ tasks' = Replace(t, [t EXCEPT !.pc = "refresh", !.td = tokenData])
                /\ ev' = Event("refresh_request", t.user)
                /\ UNCHANGED <<activeTimers, armed>>
           ELSE GetReturns(t, "getRaw", tokenData)
    /\ UNCHANGED <<store, now, srvGen, purged, listeners>>

RefreshOutcomes == {"ok", "rejected", "http5xx", "network"}

\* refreshToken(): the token endpoint answers
RefreshDone(t, outcome, expires_in) ==
    /\ t \in At("refresh")
    /\ LET u == t.user
           granted == /\ "refreshToken" \in DOMAIN t.td
                      /\ t.td.refreshToken = srvGen[u]
                      /\ srvGen[u] < MaxGen
       IN  IF outcome = "ok"
           THEN /\ granted
                /\ srvGen' = [srvGen EXCEPT ![u] = @ + 1]
                /\ LET data == [access_token |-> srvGen[u] + 1,
                                refresh_token |-> srvGen[u] + 1,
                                expires_in |-> expires_in]
                       refreshedTokenData == Refreshed(t.td, data, now)
                   IN  \* await this.set(userId, refreshedTokenData)
                       /\ tasks' = Replace(t, [t EXCEPT
                                      !.pc = "set",
                                      !.td = refreshedTokenData,
                                      !.data = DataToEncrypt(refreshedTokenData, now)])
                       /\ ev' = [Event("refresh_ok", u) EXCEPT !.arg = <<data>>]
           \* catch: await this.delete(userId)
           ELSE /\ expires_in = 0
                /\ tasks' = Replace(t, [t EXCEPT !.pc = "delete", !.err = outcome])
                /\ ev' = Event("refresh_" \o outcome, u)
                /\ UNCHANGED srvGen
    /\ UNCHANGED <<store, now, activeTimers, armed, purged, listeners>>

\* the cycle of task t ends in pollUserStrain's catch block
CycleCaught(t, type) ==
    LET c == pollCatch([Sched EXCEPT !.tasks = Remove(t)], t.user)
    IN  /\ Apply(c.st)
        /\ ev' = [Event(type, t.user) EXCEPT !.out = c.out]

\* set(): the INSERT ... ON CONFLICT DO UPDATE answers (ok: it succeeded)
SetDone(t, ok) ==
    /\ t \in At("set")
    /\ LET u == t.user
       IN  /\ store' = [store EXCEPT ![u] = upserted(store[u], t.data, ok)]
           /\ CASE t.kind = "auth" ->
                   \* getUser(): done(null, user) / done(error)
                   /\ tasks' = Remove(t)
                   /\ purged' = IF ok THEN purged \ {u} ELSE purged
                   /\ ev' = Event(IF ok THEN "authorized" ELSE "authorize_failed", u)
                   /\ UNCHANGED <<activeTimers, armed>>
                [] t.kind = "settings" ->
                   /\ UNCHANGED purged
                   /\ IF ok
                      THEN LET st == [Sched EXCEPT !.tasks = Remove(t)]
                           IN  IF t.data.strainPollingEnabled
                               THEN /\ Apply(startUserPolling(st, u))
                                    /\ ev' = [Event("settings", u) EXCEPT !.out =
                                         IF activeTimers[u] # 0 THEN "already" ELSE "started"]
                               ELSE /\ Apply(stopUserPolling(st, u))
                                    /\ ev' = [Event("settings", u) EXCEPT !.out =
                                         IF activeTimers[u] # 0 THEN "stopped" ELSE "absent"]
                      \* the await throws: the handler ends there
                      ELSE /\ tasks' = Remove(t)
                           /\ ev' = Event("settings_failed", u)
                           /\ UNCHANGED <<activeTimers, armed>>
                [] OTHER ->
                   \* refreshToken(): return refreshedTokenData / catch
                   /\ UNCHANGED purged
                   /\ IF ok
                      THEN GetReturns(t, "refreshed", t.td)
                      ELSE /\ tasks' = Replace(t, [t EXCEPT !.pc = "delete", !.err = "persist"])
                           /\ ev' = Event("set_failed", u)
                           /\ UNCHANGED <<activeTimers, armed>>
    /\ UNCHANGED <<now, srvGen, listeners>>

\* refreshToken()'s catch: the DELETE answers, then the error is thrown on and
\* get() returns null
DeleteDone(t, ok) ==
    /\ t \in At("delete")
    /\ store' = IF ok THEN [store EXCEPT ![t.user] = Null] ELSE store
    /\ purged' = IF ok /\ t.err = "rejected" THEN purged \cup {t.user} ELSE purged
    /\ GetReturns(t, IF ok THEN "deleted" ELSE "delete_failed", Null)
    /\ UNCHANGED <<now, srvGen, listeners>>

FetchOutcomes == {"network", "http", "empty", "record"}

StrainValues == {1, 2}

\* pollUserStrain treating an empty answer like a record
hasRecordsAlways(outcome) == TRUE

\* pollUserStrain(): data.records && data.records.length > 0
hasRecords(outcome) == outcome = "record"

\* makeWhoopApiCall(): the metric source answers (strain: the score of the
\* record it returns)
FetchDone(t, outcome, strain) ==
    /\ t \in At("fetch")
    /\ IF t.kind = "strain"
       \* GET /current-strain: res.status(500) from the catch block,
       \* res.json(strainData), or res.json({ error: 'No cycle data available' })
       THEN /\ hasRecords(outcome) \/ strain = 1
            /\ tasks' = Remove(t)
            /\ ev' = [Event("answered", t.user) EXCEPT
                         !.arg = <<outcome>>,
                         !.out = IF outcome \in {"network", "http"} THEN "500"
                                 ELSE IF hasRecords(outcome) THEN "strain"
                                 ELSE "error_body"]
            /\ UNCHANGED <<activeTimers, armed>>
       ELSE IF outcome \in {"network", "http"}
       THEN /\ strain = 1
            /\ LET c == pollCatch([Sched EXCEPT !.tasks = Remove(t)], t.user)
               IN  /\ Apply(c.st)
                   /\ ev' = [Event("fetch_failed", t.user) EXCEPT
                                !.out = c.out, !.arg = <<outcome>>]
       ELSE IF hasRecords(outcome)
       THEN \* await sendToFoundry("strain", strainData)
            /\ tasks' = Replace(t, [t EXCEPT !.pc = "sink",
                                      !.td = [strain |-> strain, user_id |-> t.user]])
            /\ ev' = [Event("fetched", t.user) EXCEPT !.arg = <<outcome>>]
            /\ UNCHANGED <<activeTimers, armed>>
       ELSE /\ strain = 1
            /\ tasks' = Remove(t)
            /\ ev' = [Event("fetched_empty", t.user) EXCEPT
                         !.out = "no_data", !.arg = <<outcome>>]
            /\ UNCHANGED <<activeTimers, armed>>
    /\ UNCHANGED <<store, now, srvGen, purged, listeners>>

\* sendToFoundry(): the sink answers; on success the sample is emitted and
\* returned, unless a listener throws into the catch block
SinkDone(t, ok) ==
    /\ t \in At("sink")
    /\ IF ok
       THEN LET e == emit(Due(listeners, t.user, t.td), t.user, t.td)
            IN  /\ \A i \in DOMAIN listeners :
                      listeners[i].user = t.user => Len(listeners[i].due) < MaxFrames
                /\ Len(e.listeners) <= MaxConns
                /\ listeners' = e.listeners
                /\ IF e.threw
                   THEN CycleCaught(t, "emit_threw")
                   ELSE /\ tasks' = Remove(t)
                        /\ ev' = [Event("emit", t.user) EXCEPT
                                     !.out = "sample", !.arg = <<t.td>>]
                        /\ UNCHANGED <<activeTimers, armed>>
       ELSE /\ CycleCaught(t, "sink_failed")
            /\ UNCHANGED listeners
    /\ UNCHANGED <<store, now, srvGen, purged>>

\* --------------------------------------------------------------- viewers
\* GET /events/strain of the authenticated user u: strainEmitter.on('strain', send)
Connect(u) ==
    /\ Len(listeners) < MaxConns
    /\ listeners' = Append(listeners, Listener(u, FALSE, "none"))
    /\ ev' = Event("connect", u)
    /\ UNCHANGED <<store, now, srvGen, tasks, activeTimers, armed, purged>>

\* req.on('close'): strainEmitter.off('strain', send) of the i-th listener
Close(i) ==
    /\ i \in DOMAIN listeners
    /\ listeners[i].open
    /\ listeners' = [k \in 1..(Len(listeners) - 1) |->
                        IF k < i THEN listeners[k] ELSE listeners[k + 1]]
    /\ ev' = Event("close", listeners[i].user)
    /\ UNCHANGED <<store, now, srvGen, tasks, activeTimers, armed, purged>>

\* strainEmitter.on('strain', fn) by another module: the emitter is exported,
\* and fn may throw when it delivers, or call off / on of the emitter
Subscribe(u, throws, during) ==
    /\ Len(listeners) < MaxConns
    /\ listeners' = Append(listeners, Listener(u, throws, during))
    /\ ev' = Event("subscribe", u)
    /\ UNCHANGED <<store, now, srvGen, tasks, activeTimers, armed, purged>>

\* GET /events/strain arrives with the session cookie of u: express-session
\* reads the session file before the route handler is called
ViewerRequest(u) ==
    /\ NTasks < MaxTasks
    /\ tasks' = Add(Task("viewer", u, "session"))
    /\ ev' = Event("viewer_request", u)
    /\ UNCHANGED <<store, now, srvGen, activeTimers, armed, purged, listeners>>

\* the client closes the connection while the session is read: req emits
\* 'close', and no listener for it has been added yet
ViewerGone(t) ==
    /\ t \in At("session")
    /\ t.err = "none"
    /\ tasks' = Replace(t, [t EXCEPT !.err = "closed"])
    /\ ev' = Event("viewer_gone", t.user)
    /\ UNCHANGED <<store, now, srvGen, activeTimers, armed, purged, listeners>>

\* the session is read and the route handler runs: strainEmitter.on('strain',
\* send), then req.on('close', ...), whatever the state of the connection
ViewerOpen(t) ==
    /\ t \in At("session")
    /\ Len(listeners) < MaxConns
    /\ tasks' = Remove(t)
    /\ listeners' = Append(listeners,
                          [Listener(t.user, FALSE, "none") EXCEPT !.open = t.err = "none"])
    /\ ev' = Event("connect", t.user)
    /\ UNCHANGED <<store, now, srvGen, activeTimers, armed, purged>>

Tick ==
    /\ now < StartTime + MaxTicks * MsPerSecond
    /\ now' = now + MsPerSecond
    /\ ev' = Event("tick", "")
    /\ UNCHANGED <<store, srvGen, tasks, activeTimers, armed, purged, listeners>>

\* ------------------------------------------------------------ disconnect
\* a revokeAccessToken that reads through get(): an expired record is
\* refreshed first
revokeReadRefreshing(userToken, t) ==
    IF userToken = Null THEN "discDelete"
    ELSE IF IsExpired(userToken, t) THEN "refresh"
    ELSE "revoke"

\* revokeAccessToken() after `userToken = await tokenStorage.getRaw(userId)`:
\* the await the handler reaches next
revokeRead(userToken, t) ==
    IF userToken = Null THEN "discDelete" ELSE "revoke"

\* GET /disconnect up to its first await: stopUserPolling, then
\* revokeAccessToken -> tokenStorage.getRaw -> pool.query
Disconnect(u) ==
    /\ NTasks < MaxTasks
    /\ Apply(stopUserPolling([Sched EXCEPT
                !.tasks = @ (+) SetToBag({Task("disconnect", u, "revokeRead")})], u))
    /\ ev' = [Event("disconnect", u) EXCEPT
                 !.out = IF activeTimers[u] # 0 THEN "stopped" ELSE "absent"]
    /\ UNCHANGED <<store, now, srvGen, purged, listeners>>

\* getRaw() answers revokeAccessToken (row: the query succeeded)
RevokeReadDone(t, row) ==
    /\ t \in At("revokeRead")
    /\ LET userToken == getRaw(row, store[t.user])
       IN  /\ tasks' = Replace(t, [t EXCEPT !.pc = revokeRead(userToken, now),
                                              !.td = userToken])
           /\ ev' = [Event("revoke_read", t.user) EXCEPT
                        !.ret = IF userToken = Null THEN "null" ELSE "cred",
                        !.cred = userToken]
    /\ UNCHANGED <<store, now, srvGen, activeTimers, armed, purged, listeners>>

RevokeOutcomes == {"ok", "http", "network"}

\* POST /oauth/oauth2/revoke answers or fails: revokeAccessToken returns
\* true or false, and the handler goes on to await tokenStorage.delete(...)
RevokeDone(t, outcome) ==
    /\ t \in At("revoke")
    /\ tasks' = Replace(t, [t EXCEPT !.pc = "discDelete"])
    /\ ev' = Event("revoke_" \o outcome, t.user)
    /\ UNCHANGED <<store, now, srvGen, activeTimers, armed, purged, listeners>>

\* the handler's DELETE answers: req.logout(...) on success, the catch block
\* answers 500 otherwise
DiscDeleteDone(t, ok) ==
    /\ t \in At("discDelete")
    /\ IF ok
       THEN /\ store' = [store EXCEPT ![t.user] = Null]
            /\ tasks' = Replace(t, [t EXCEPT !.pc = "logout"])
            /\ ev' = Event("disconnect_deleted", t.user)
       ELSE /\ store' = store
            /\ tasks' = Remove(t)
            /\ ev' = [Event("disconnect_failed", t.user) EXCEPT !.out = "500"]
    /\ UNCHANGED <<now, srvGen, activeTimers, armed, purged, listeners>>

\* req.logout's callback: res.redirect('/?disconnected=true') or 500
LogoutDone(t, ok) ==
    /\ t \in At("logout")
    /\ tasks' = Remove(t)
    /\ ev' = IF ok
             THEN [Event("disconnected", t.user) EXCEPT !.out = "redirect"]
             ELSE [Event("logout_failed", t.user) EXCEPT !.out = "500"]
    /\ UNCHANGED <<store, now, srvGen, activeTimers, armed, purged, listeners>>

\* ------------------------------------------------- requests with req.user
\* POST /settings/strain-polling as req.user
SettingsRequest(user, enabled) ==
    IF isAuthenticated(user) THEN PostSettings(user.userId, enabled) ELSE Refused("settings")

\* GET /disconnect as req.user
DisconnectRequest(user) ==
    IF isAuthenticated(user) THEN Disconnect(user.userId) ELSE Refused("disconnect")

\* GET /events/strain as req.user
EventsRequest(user) ==
    IF isAuthenticated(user) THEN Connect(user.userId) ELSE Refused("events")

\* --------------------------------------------------------------- startup
\* app.listen's callback, the first thing the process does: with
\* ENABLE_STRAIN_WORKER === 'true' it awaits tokenStorage.getAll()
Startup(toggle) ==
    /\ ev = NoEvent
    /\ IF toggle
       THEN /\ tasks' = Add(Task("boot", "", "getAll"))
            /\ ev' = [Event("startup", "") EXCEPT !.out = "bootstrapping"]
       ELSE /\ tasks' = tasks
            /\ ev' = [Event("startup", "") EXCEPT !.out = "skipped"]
    /\ UNCHANGED <<store, now, srvGen, activeTimers, armed, purged, listeners>>

\* getAll() answers (ok: the SELECT succeeded; {} otherwise); every row is
\* decrypted inside its own try block and strainManager.bootstrap gets the
\* enabled users in the order of the rows
BootDone(t, ok, userIds) ==
    /\ t \in At("getAll")
    /\ LET allTokens == IF ok THEN store ELSE [u \in Users |-> Null]
           st == bootstrap([Sched EXCEPT !.tasks = Remove(t)], userIds)
       IN  /\ {userIds[i] : i \in DOMAIN userIds} = enabledUsers(allTokens)
           /\ Len(userIds) = Cardinality(enabledUsers(allTokens))
           /\ BagCardinality(st.tasks) <= MaxTasks
           /\ Apply(st)
           /\ ev' = [Event("boot", "") EXCEPT
                        !.arg = userIds,
                        !.out = IF ok THEN "read" ELSE "read_failed"]
    /\ UNCHANGED <<store, now, srvGen, purged, listeners>>

\* ------------------------------------------------------------------- Next
\* The vault under concurrent requests of one user, second by second (the
\* polling interval, 10 min, does not elapse).
VaultUsers == {"u1"}

InitVault == InitOf([u \in Users |-> IF u \in VaultUsers THEN InitialRecords ELSE {Null}])

NextVault ==
    \/ \E u \in VaultUsers : GetSettings(u)
    \/ \E u \in VaultUsers, en \in BOOLEAN : PostSettings(u, en)
    \/ \E u \in VaultUsers, x \in ExpiresInChoices : Authorize(u, x)
    \/ \E t \in BagToSet(tasks), row \in BOOLEAN : GetRawDone(t, row)
    \/ \E t \in BagToSet(tasks), o \in RefreshOutcomes, x \in ExpiresInChoices :
          RefreshDone(t, o, x)
    \/ \E t \in BagToSet(tasks), ok \in BOOLEAN : SetDone(t, ok)
    \/ \E t \in BagToSet(tasks), ok \in BOOLEAN : DeleteDone(t, ok)
    \/ \E t \in BagToSet(tasks), o \in FetchOutcomes, x \in {1} : FetchDone(t, o, x)
    \/ \E t \in BagToSet(tasks), ok \in BOOLEAN : SinkDone(t, ok)
    \/ Tick

SpecVault == InitVault /\ [][NextVault]_vars

\* The reads of one user alone: concurrent tokenStorage.get calls and the
\* refreshes they start.
NextGet ==
    \/ \E u \in VaultUsers : GetSettings(u)
    \/ \E t \in BagToSet(tasks), row \in BOOLEAN : GetRawDone(t, row)
    \/ \E t \in BagToSet(tasks), o \in RefreshOutcomes, x \in ExpiresInChoices :
          RefreshDone(t, o, x)
    \/ \E t \in BagToSet(tasks), ok \in BOOLEAN : SetDone(t, ok)
    \/ \E t \in BagToSet(tasks), ok \in BOOLEAN : DeleteDone(t, ok)
    \/ Tick

SpecGet == InitVault /\ [][NextGet]_vars

\* The scheduler of all users with its timers firing; the row of u1 may have
\* expired, so that its cycles refresh.
InitSched == InitOf([u \in Users |-> IF u \in VaultUsers THEN InitialRecords ELSE Unexpired])

NextSched ==
    \/ \E u \in Users : StartUserPolling(u)
    \/ \E u \in Users : StopUserPolling(u)
    \/ \E l \in BootstrapLists : Bootstrap(l)
    \/ Shutdown
    \/ \E tm \in armed : TimerFire(tm)
    \/ \E t \in BagToSet(tasks), row \in BOOLEAN : GetRawDone(t, row)
    \/ \E t \in BagToSet(tasks), o \in RefreshOutcomes, x \in ExpiresInChoices :
          RefreshDone(t, o, x)
    \/ \E t \in BagToSet(tasks), ok \in BOOLEAN : SetDone(t, ok)
    \/ \E t \in BagToSet(tasks), ok \in BOOLEAN : DeleteDone(t, ok)
    \/ \E t \in BagToSet(tasks), o \in FetchOutcomes, x \in {1} : FetchDone(t, o, x)
    \/ \E t \in BagToSet(tasks), ok \in BOOLEAN : SinkDone(t, ok)

SpecSched == InitSched /\ [][NextSched]_vars

\* Concurrent reads of one user against a server that rotates refresh
\* tokens and fails in no other way: it rejects a refresh token only when an
\* earlier request has used it up; the database answers every query.
NextRotate ==
    \/ \E u \in VaultUsers : GetSettings(u)
    \/ \E t \in BagToSet(tasks) : GetRawDone(t, TRUE)
    \/ \E t \in BagToSet(tasks), x \in ExpiresInChoices : RefreshDone(t, "ok", x)
    \/ \E t \in At("refresh") :
          /\ t.td.refreshToken # srvGen[t.user]
          /\ RefreshDone(t, "rejected", 0)
    \/ \E t \in BagToSet(tasks) : SetDone(t, TRUE)
    \/ \E t \in BagToSet(tasks) : DeleteDone(t, TRUE)
    \/ Tick

SpecRotate == InitVault /\ [][NextRotate]_vars

\* GET /disconnect of one user next to that user's other requests and
\* polling cycles.
NextDisc ==
    \/ \E u \in VaultUsers : Disconnect(u)
    \/ \E t \in BagToSet(tasks), row \in BOOLEAN : RevokeReadDone(t, row)
    \/ \E t \in BagToSet(tasks), o \in RevokeOutcomes : RevokeDone(t, o)
    \/ \E t \in BagToSet(tasks), ok \in BOOLEAN : DiscDeleteDone(t, ok)
    \/ \E t \in BagToSet(tasks), ok \in BOOLEAN : LogoutDone(t, ok)
    \/ \E u \in VaultUsers : GetSettings(u)
    \/ \E u \in VaultUsers, en \in BOOLEAN : PostSettings(u, en)
    \/ \E u \in VaultUsers : StartUserPolling(u)
    \/ \E tm \in armed : TimerFire(tm)
    \/ \E t \in BagToSet(tasks), row \in BOOLEAN : GetRawDone(t, row)
    \/ \E t \in BagToSet(tasks), o \in RefreshOutcomes, x \in ExpiresInChoices :
          RefreshDone(t, o, x)
    \/ \E t \in BagToSet(tasks), ok \in BOOLEAN : SetDone(t, ok)
    \/ \E t \in BagToSet(tasks), ok \in BOOLEAN : DeleteDone(t, ok)
    \/ \E t \in BagToSet(tasks), o \in FetchOutcomes, x \in {1} : FetchDone(t, o, x)
    \/ \E t \in BagToSet(tasks), ok \in BOOLEAN : SinkDone(t, ok)

SpecDisc == InitVault /\ [][NextDisc]_vars

\* The viewers of both users while the cycles of u1 publish; the rows are
\* valid, so that no cycle refreshes.
Valid == {r \in InitialRecords : r # Null /\ ~IsExpired(r, StartTime + MaxTicks * MsPerSecond)}

InitHub == InitOf([u \in Users |-> Valid])

NextHub ==
    \/ \E u \in VaultUsers : StartUserPolling(u)
    \/ \E u \in Users : StopUserPolling(u)
    \/ \E tm \in armed : TimerFire(tm)
    \/ \E t \in BagToSet(tasks), row \in BOOLEAN : GetRawDone(t, row)
    \/ \E t \in BagToSet(tasks), o \in FetchOutcomes, x \in StrainValues : FetchDone(t, o, x)
    \/ \E t \in BagToSet(tasks), ok \in BOOLEAN : SinkDone(t, ok)
    \/ \E u \in Users : Connect(u)
    \/ \E i \in DOMAIN listeners : Close(i)

SpecHub == InitHub /\ [][NextHub]_vars

\* The same with listeners that other modules add to the exported emitter.
NextHubOpen ==
    \/ \E u \in VaultUsers : StartUserPolling(u)
    \/ \E tm \in armed : TimerFire(tm)
    \/ \E t \in BagToSet(tasks), row \in BOOLEAN : GetRawDone(t, row)
    \/ \E t \in BagToSet(tasks), o \in FetchOutcomes, x \in StrainValues : FetchDone(t, o, x)
    \/ \E t \in BagToSet(tasks), ok \in BOOLEAN : SinkDone(t, ok)
    \/ \E u \in Users : Connect(u)
    \/ \E i \in DOMAIN listeners : Close(i)
    \/ \E u \in Users, throws \in BOOLEAN : Subscribe(u, throws, "none")

SpecHubOpen == InitHub /\ [][NextHubOpen]_vars

\* The viewers next to listeners that remove themselves or add a listener
\* while they are called.
NextHubReentrant ==
    \/ \E u \in VaultUsers : StartUserPolling(u)
    \/ \E tm \in armed : TimerFire(tm)
    \/ \E t \in BagToSet(tasks), row \in BOOLEAN : GetRawDone(t, row)
    \/ \E t \in BagToSet(tasks), o \in FetchOutcomes, x \in StrainValues : FetchDone(t, o, x)
    \/ \E t \in BagToSet(tasks), ok \in BOOLEAN : SinkDone(t, ok)
    \/ \E u \in Users : Connect(u)
    \/ \E i \in DOMAIN listeners : Close(i)
    \/ \E u \in Users, during \in {"off", "on"} : Subscribe(u, FALSE, during)

SpecHubReentrant == InitHub /\ [][NextHubReentrant]_vars


\* Process start: the table holds for each user no row, a row that does not
\* decrypt, a valid token row or a row a settings request wrote.
BootRecords ==
    {Null, Corrupt} \cup Valid \cup
    {DataToEncrypt([strainPollingEnabled |-> b], MsPerSecond) : b \in BOOLEAN}

InitBoot == InitOf([u \in Users |-> BootRecords])

NextBoot ==
    \/ \E toggle \in BOOLEAN : Startup(toggle)
    \/ \E t \in BagToSet(tasks), ok \in BOOLEAN, l \in BootstrapLists : BootDone(t, ok, l)
    \/ \E u \in Users : StartUserPolling(u)
    \/ \E tm \in armed : TimerFire(tm)
    \/ \E u \in VaultUsers : GetSettings(u)
    \/ \E u \in VaultUsers : Disconnect(u)
    \/ \E t \in BagToSet(tasks), row \in BOOLEAN : RevokeReadDone(t, row)
    \/ \E t \in BagToSet(tasks), o \in RevokeOutcomes : RevokeDone(t, o)
    \/ \E t \in BagToSet(tasks), ok \in BOOLEAN : DiscDeleteDone(t, ok)
    \/ \E t \in BagToSet(tasks), ok \in BOOLEAN : LogoutDone(t, ok)
    \/ \E t \in BagToSet(tasks), row \in BOOLEAN : GetRawDone(t, row)
    \/ \E t \in BagToSet(tasks), o \in FetchOutcomes, x \in {1} : FetchDone(t, o, x)
    \/ \E t \in BagToSet(tasks), ok \in BOOLEAN : SinkDone(t, ok)

SpecBoot == InitBoot /\ [][NextBoot]_vars

\* The schedule of one user over time.  An armed setInterval timer keeps
\* firing, and every request a cycle waits for is answered in the end, with
\* whatever outcome (the bound on the handlers in flight needs the latter).
Answers ==
    \/ \E t \in BagToSet(tasks), row \in BOOLEAN : GetRawDone(t, row)
    \/ \E t \in BagToSet(tasks), o \in RefreshOutcomes, x \in ExpiresInChoices :
          RefreshDone(t, o, x)
    \/ \E t \in BagToSet(tasks), ok \in BOOLEAN : SetDone(t, ok)
    \/ \E t \in BagToSet(tasks), ok \in BOOLEAN : DeleteDone(t, ok)
    \/ \E t \in BagToSet(tasks), o \in FetchOutcomes, x \in {1} : FetchDone(t, o, x)
    \/ \E t \in BagToSet(tasks), ok \in BOOLEAN : SinkDone(t, ok)

TimerFires == \E tm \in armed : TimerFire(tm)

NextLive ==
    \/ \E u \in VaultUsers : StartUserPolling(u)
    \/ \E u \in VaultUsers : StopUserPolling(u)
    \/ TimerFires
    \/ Answers

SpecLive ==
    InitVault /\ [][NextLive]_vars /\ WF_vars(TimerFires) /\ WF_vars(Answers)

\* Two users side by side: u1 with everything that can happen to a user
\* (start, stop, cycles of every outcome, refresh, purge, disconnect), u2
\* scheduled with a valid record and viewers.
InitPair == InitOf([u \in Users |-> IF u \in VaultUsers THEN InitialRecords ELSE Valid])

NextPair ==
    \/ \E u \in Users : StartUserPolling(u)
    \/ \E u \in VaultUsers : StopUserPolling(u)
    \/ \E tm \in armed : TimerFire(tm)
    \/ \E u \in VaultUsers : Disconnect(u)
    \/ \E t \in BagToSet(tasks), row \in BOOLEAN : RevokeReadDone(t, row)
    \/ \E t \in BagToSet(tasks), o \in RevokeOutcomes : RevokeDone(t, o)
    \/ \E t \in BagToSet(tasks), ok \in BOOLEAN : DiscDeleteDone(t, ok)
    \/ \E t \in BagToSet(tasks), ok \in BOOLEAN : LogoutDone(t, ok)
    \/ \E t \in BagToSet(tasks), row \in BOOLEAN : GetRawDone(t, row)
    \/ \E t \in BagToSet(tasks), o \in RefreshOutcomes, x \in ExpiresInChoices :
          RefreshDone(t, o, x)
    \/ \E t \in BagToSet(tasks), ok \in BOOLEAN : SetDone(t, ok)
    \/ \E t \in BagToSet(tasks), ok \in BOOLEAN : DeleteDone(t, ok)
    \/ \E t \in BagToSet(tasks), o \in FetchOutcomes, x \in {1} : FetchDone(t, o, x)
    \/ \E t \in BagToSet(tasks), ok \in BOOLEAN : SinkDone(t, ok)
    \/ \E u \in Users \ VaultUsers : Connect(u)
    \/ \E i \in DOMAIN listeners : Close(i)

SpecPair == InitPair /\ [][NextPair]_vars

\* Both users publish, with every sample value, while viewers of u2 come and
\* go; the rows are valid and every request is answered with a record.
NextIso ==
    \/ \E u \in Users : StartUserPolling(u)
    \/ \E tm \in armed : TimerFire(tm)
    \/ \E t \in BagToSet(tasks) : GetRawDone(t, TRUE)
    \/ \E t \in BagToSet(tasks), x \in StrainValues : FetchDone(t, "record", x)
    \/ \E t \in BagToSet(tasks) : SinkDone(t, TRUE)
    \/ \E u \in Users \ VaultUsers : Connect(u)
    \/ \E i \in DOMAIN listeners : Close(i)

SpecIso == InitHub /\ [][NextIso]_vars

\* Viewer connections from the arrival of the request to the close, next to
\* the cycles of u1 that publish.
NextView ==
    \/ \E u \in Users : ViewerRequest(u)
    \/ \E t \in BagToSet(tasks) : ViewerGone(t)
    \/ \E t \in BagToSet(tasks) : ViewerOpen(t)
    \/ \E i \in DOMAIN listeners : Close(i)
    \/ \E u \in VaultUsers : StartUserPolling(u)
    \/ \E tm \in armed : TimerFire(tm)
    \/ \E t \in BagToSet(tasks), row \in BOOLEAN : GetRawDone(t, row)
    \/ \E t \in BagToSet(tasks), o \in FetchOutcomes, x \in {1} : FetchDone(t, o, x)
    \/ \E t \in BagToSet(tasks), ok \in BOOLEAN : SinkDone(t, ok)

SpecView == InitHub /\ [][NextView]_vars

\* The requests of a logged-in user that read: the polling setting and the
\* current strain, with every outcome of the vault and of the metric source.
NextFront ==
    \/ \E u \in VaultUsers : GetSettings(u)
    \/ \E u \in VaultUsers : CurrentStrain(u)
    \/ \E t \in BagToSet(tasks), row \in BOOLEAN : GetRawDone(t, row)
    \/ \E t \in BagToSet(tasks), o \in RefreshOutcomes, x \in ExpiresInChoices :
          RefreshDone(t, o, x)
    \/ \E t \in BagToSet(tasks), ok \in BOOLEAN : SetDone(t, ok)
    \/ \E t \in BagToSet(tasks), ok \in BOOLEAN : DeleteDone(t, ok)
    \/ \E t \in BagToSet(tasks), o \in FetchOutcomes, x \in StrainValues : FetchDone(t, o, x)

SpecFront == InitVault /\ [][NextFront]_vars

\* Requests with and without a session: u1 is logged in, the session of
\* u2 is not authenticated, and some requests carry no user at all; every
\* query and request of a handler is answered without an error.
ReqUsers ==
    {Null} \cup {[userId |-> u, isAuthenticated |-> u \in VaultUsers] : u \in Users}

NextGate ==
    \/ \E user \in ReqUsers, en \in BOOLEAN : SettingsRequest(user, en)
    \/ \E user \in ReqUsers : DisconnectRequest(user)
    \/ \E user \in ReqUsers : EventsRequest(user)
    \/ \E tm \in armed : TimerFire(tm)
    \/ \E t \in BagToSet(tasks) : RevokeReadDone(t, TRUE)
    \/ \E t \in BagToSet(tasks) : RevokeDone(t, "ok")
    \/ \E t \in BagToSet(tasks) : DiscDeleteDone(t, TRUE)
    \/ \E t \in BagToSet(tasks) : LogoutDone(t, TRUE)
    \/ \E t \in BagToSet(tasks) : GetRawDone(t, TRUE)
    \/ \E t \in BagToSet(tasks) : SetDone(t, TRUE)
    \/ \E t \in BagToSet(tasks) : FetchDone(t, "record", 1)
    \/ \E t \in BagToSet(tasks) : SinkDone(t, TRUE)

SpecGate == InitHub /\ [][NextGate]_vars

\* ----------------------------------------------------------------- claims
TimersOf(u) == {tm \in armed : tm.user = u}

\* some cycle resumed in this step (only a resumed task leaves the bag)
CycleStepped ==
    \E t \in BagToSet(tasks) :
        t.kind = "cycle" /\ CopiesIn(t, tasks') < CopiesIn(t, tasks)

\* C1: under every interleaving of startUserPolling, stopUserPolling, bootstrap
\* and shutdown, a user has at most one armed interval timer, and every armed
\* timer is the one activeTimers records for its user.
C1_OneTrackedTimerPerUser ==
    /\ \A u \in Users : Cardinality(TimersOf(u)) <= 1
    /\ \A tm \in armed : activeTimers[tm.user] = tm.h

\* C1 witness: a user was stopped while every other user stays armed and tracked
C1_Witness ==
    /\ ev.type = "stop" /\ ev.out = "stopped"
    /\ \A u \in Users \ {ev.user} : Cardinality(TimersOf(u)) = 1

\* C2: startUserPolling(u) on a user without a schedule leaves exactly one
\* schedule for u and starts exactly one cycle; a call on a scheduled user
\* changes nothing and starts no cycle.
C2_StartIdempotent ==
    [][ev'.type = "start" =>
         LET u == ev'.user
         IN  IF activeTimers[u] # 0
             THEN UNCHANGED <<store, now, srvGen, tasks, activeTimers, armed, purged, listeners>>
             ELSE /\ activeTimers'[u] # 0
                  /\ Cardinality({tm \in armed' : tm.user = u}) = 1
                  /\ Cycles(tasks', u) = Cycles(tasks, u) + 1]_vars

\* C2 witness: the second of two immediate calls has returned: one timer, and
\* the one immediate cycle still waits for its first answer
C2_Witness ==
    /\ ev.type = "start" /\ ev.out = "already"
    /\ Cardinality(TimersOf(ev.user)) = 1
    /\ Cycles(tasks, ev.user) = 1
    /\ \E t \in At("getRaw") : t.kind = "cycle" /\ t.user = ev.user

\* number of handlers of user u suspended at pc
CountAt(pc, u) ==
    LET S == {t \in At(pc) : t.user = u}
        RECURSIVE Sum(_)
        Sum(T) == IF T = {} THEN 0
                  ELSE LET x == CHOOSE x \in T : TRUE
                       IN  CopiesIn(x, tasks) + Sum(T \ {x})
    IN  Sum(S)

\* C3: refresh is single-flight: at no time are two requests of one user to
\* the token endpoint in flight.
C3_SingleFlight == \A u \in Users : CountAt("refresh", u) <= 1

\* C4: inside get/refresh a stored record is deleted only after the
\* authorization server rejected the grant.
C4_DeleteOnlyOnRejection ==
    [][\A u \in Users :
         (store[u] # Null /\ store'[u] = Null) =>
             \E t \in At("delete") :
                 /\ t.user = u /\ t.err = "rejected"
                 /\ CopiesIn(t, tasks') < CopiesIn(t, tasks)]_vars

\* C5: when a get(u) ends after a network failure of its refresh, the record
\* of u that was stored is still stored.
C5_NetworkFailureKeepsRecord ==
    [][\A t \in At("delete") :
         (t.err = "network" /\ CopiesIn(t, tasks') < CopiesIn(t, tasks)
             /\ store[t.user] # Null) => store'[t.user] # Null]_vars

\* C6: once a rejected refresh has deleted the record of u, no record of u is
\* stored (so get(u) finds nothing) until a new authorization stores one.
C6_PurgedStaysAbsent == \A u \in purged : store[u] = Null

\* C7: a credential that get returns has not expired when it is returned:
\* now < expiresAt.
C7_ReturnedUnexpired ==
    ev.ret = "cred" => ("expiresAt" \in DOMAIN ev.cred /\ now < ev.cred.expiresAt)

\* C8: the set of POST /settings/strain-polling keeps the accessToken,
\* refreshToken and expiresAt that were stored for the user.
C8_SetMerges ==
    [][(ev'.type = "settings" /\ store[ev'.user] # Null) =>
         \A f \in (DOMAIN store[ev'.user]) \ {"strainPollingEnabled", "updatedAt"} :
             /\ f \in DOMAIN store'[ev'.user]
             /\ store'[ev'.user][f] = store[ev'.user][f]]_vars

\* C9: two cycles of one user are never in flight together.
C9_NoOverlap == \A u \in Users : Cycles(tasks, u) <= 1

\* C10: a step of a cycle, whatever its outcome, leaves activeTimers and the
\* armed timers as they were, and the cycle ends by returning, never by an
\* exception.
C10_CycleKeepsSchedule ==
    [][CycleStepped =>
         /\ activeTimers' = activeTimers
         /\ armed' = armed
         /\ ev'.out \in {"none", "null", "no_data", "sample"}]_vars

\* C10 witness: a cycle of a scheduled user ended in the catch block after its
\* refresh was rejected and the record deleted; the timer is still armed
C10_Witness ==
    /\ ev.type = "deleted" /\ ev.out = "null"
    /\ activeTimers[ev.user] # 0
    /\ Cardinality(TimersOf(ev.user)) = 1

\* a new cycle of u begins in this step
CycleBegins(u) == Cycles(tasks', u) > Cycles(tasks, u)

\* C11: once stopUserPolling(u) has returned (u has no schedule entry), a
\* new cycle of u begins only in a step that calls startUserPolling or
\* bootstrap; the cycle in flight at the stop is not aborted
C11_NoCycleAfterStop ==
    [][\A u \in Users :
          (activeTimers[u] = 0 /\ CycleBegins(u)) => ev'.type \in {"start", "bootstrap"}]_vars

\* u was stopped while a cycle of u was in flight, and that cycle went on to
\* its next await
C11_Witness ==
    /\ ev.type = "getRaw" /\ ev.ret = "cred"
    /\ activeTimers[ev.user] = 0 /\ TimersOf(ev.user) = {}
    /\ Cycles(tasks, ev.user) = 1
    /\ \E t \in At("fetch") : t.user = ev.user

\* C12: a cycle calls the sink or emits only while its user has a schedule
\* entry: the result of a cycle whose schedule was stopped is discarded
C12_StoppedCycleDiscarded ==
    ev.type \in {"fetched", "emit"} => activeTimers[ev.user] # 0

\* C13: a listener that throws neither keeps the sample from the other
\* listeners of the user nor ends the cycle in its catch block
C13_BroadcastIsolation ==
    /\ ev.type # "emit_threw"
    /\ \A i \in DOMAIN listeners :
          ~listeners[i].throws => listeners[i].frames = listeners[i].due

\* C14: an emit for u writes the sample once to every listener of u that is
\* registered at that moment and to no other; a listener added later starts
\* with nothing written (no replay)
C14_ExactlyOnceNoReplay ==
    [][/\ ev'.type = "emit" =>
            /\ Len(listeners') = Len(listeners)
            /\ \A i \in DOMAIN listeners :
                  listeners'[i].frames =
                      IF listeners[i].user = ev'.user
                      THEN Append(listeners[i].frames, ev'.arg[1])
                      ELSE listeners[i].frames
       /\ ev'.type = "connect" =>
            /\ Len(listeners') = Len(listeners) + 1
            /\ listeners'[Len(listeners')].frames = <<>>
            /\ \A i \in DOMAIN listeners : listeners'[i] = listeners[i]]_vars

\* the second sample of u reached both viewers of u; the viewer that
\* connected after the first sample holds the second only
C14_Witness ==
    /\ ev.type = "emit"
    /\ Len(listeners) = 2
    /\ listeners[1].user = ev.user /\ listeners[2].user = ev.user
    /\ Len(listeners[1].frames) = 2
    /\ listeners[2].frames = ev.arg
    /\ listeners[1].frames[1] # listeners[1].frames[2]

\* C15: bootstrap(userIds) on an empty schedule map schedules exactly the
\* distinct ids of the list, duplicates included once: one entry, one armed
\* timer and one immediate cycle for each, nothing for the other users
C15_BootstrapFidelity ==
    [][(ev'.type = "bootstrap" /\ \A u \in Users : activeTimers[u] = 0) =>
          \A u \in Users :
             IF \E i \in DOMAIN ev'.arg : ev'.arg[i] = u
             THEN /\ activeTimers'[u] # 0
                  /\ {tm \in armed' : tm.user = u} = {[h |-> activeTimers'[u], user |-> u]}
                  /\ Cycles(tasks', u) = Cycles(tasks, u) + 1
             ELSE /\ activeTimers'[u] = 0
                  /\ {tm \in armed' : tm.user = u} = {}
                  /\ Cycles(tasks', u) = Cycles(tasks, u)]_vars

\* bootstrap of a list that names one user twice, on an empty map
C15_Witness ==
    /\ ev.type = "bootstrap" /\ ev.out = "fresh"
    /\ Len(ev.arg) = 2 /\ ev.arg[1] = ev.arg[2]
    /\ Cardinality(TimersOf(ev.arg[1])) = 1
    /\ Cycles(tasks, ev.arg[1]) = 1
    /\ \A u \in Users \ {ev.arg[1]} : activeTimers[u] = 0

\* C16: shutdown() leaves the schedule map empty and no timer armed, and
\* while no timer is armed a new cycle begins only in a step that calls
\* startUserPolling or bootstrap
C16_ShutdownCancelsAll ==
    [][/\ ev'.type = "shutdown" =>
            /\ \A u \in Users : activeTimers'[u] = 0
            /\ armed' = {}
       /\ (armed = {} /\ \E u \in Users : CycleBegins(u)) =>
            ev'.type \in {"start", "bootstrap"}]_vars

\* shutdown with both users scheduled and a cycle in flight
C16_Witness ==
    /\ ev.type = "shutdown" /\ ev.out = "stopped"
    /\ armed = {}
    /\ \A u \in Users : activeTimers[u] = 0 /\ Cycles(tasks, u) = 1

\* the metric source answered in this step
Fetched == ev'.type \in {"fetched", "fetched_empty", "fetch_failed"}

\* C19: when the metric source answers with zero records the cycle ends
\* without an error: nothing is sent to the sink, nothing is emitted, and the
\* schedule entry and its timer stay as they are
C19_EmptyAnswerIsQuiet ==
    [][(Fetched /\ ev'.arg = <<"empty">>) =>
          /\ ev'.out = "no_data"
          /\ BagCardinality(tasks') = BagCardinality(tasks) - 1
          /\ \A t \in BagToSet(tasks') : CopiesIn(t, tasks') <= CopiesIn(t, tasks)
          /\ listeners' = listeners
          /\ activeTimers' = activeTimers /\ armed' = armed]_vars

\* an empty answer for a scheduled user with a viewer connected
C19_Witness ==
    /\ ev.type = "fetched_empty"
    /\ activeTimers[ev.user] # 0 /\ Cardinality(TimersOf(ev.user)) = 1
    /\ At("sink") = {}
    /\ \E i \in DOMAIN listeners : listeners[i].user = ev.user /\ listeners[i].frames = <<>>

TokenFields == {"accessToken", "refreshToken", "expiresAt"}

C18_GetRawReadsOnly ==
    [][ev'.type = "revoke_read" =>
          /\ store' = store /\ srvGen' = srvGen /\ purged' = purged
          /\ \A t \in BagToSet(tasks) \cup BagToSet(tasks') :
                t.pc = "refresh" => CopiesIn(t, tasks') = CopiesIn(t, tasks)
          /\ BagCardinality(tasks') = BagCardinality(tasks)
          /\ \A t \in BagToSet(tasks') :
                t.kind = "disconnect" => t.pc \in {"revokeRead", "revoke", "discDelete", "logout"}]_vars

\* disconnect read an expired record and went on to the revoke request with it
C18_Witness ==
    /\ ev.type = "revoke_read" /\ ev.ret = "cred"
    /\ IsExpired(ev.cred, now)
    /\ store[ev.user] = ev.cred
    /\ \E t \in At("revoke") : t.kind = "disconnect" /\ t.td = ev.cred
    /\ At("refresh") = {}

\* C20: /disconnect stops the schedule of u in its first step, before the
\* revocation and the delete, and when it answers with the redirect u has
\* neither a schedule entry nor a stored record
C20_DisconnectLeavesNothing ==
    /\ ev.type = "disconnect" =>
          activeTimers[ev.user] = 0 /\ TimersOf(ev.user) = {}
    /\ ev.type = "disconnected" =>
          activeTimers[ev.user] = 0 /\ store[ev.user] = Null

\* C22: what a listener has written is, in the same order, what was emitted
\* for its user while it was registered: no sample overtakes an earlier one
C22_DeliveryInPublishOrder ==
    \A i \in DOMAIN listeners : listeners[i].frames = listeners[i].due

\* a viewer holds two different samples
C22_Witness ==
    /\ ev.type = "emit"
    /\ \E i \in DOMAIN listeners :
          /\ listeners[i].user = ev.user
          /\ Len(listeners[i].frames) = 2
          /\ listeners[i].frames[1] # listeners[i].frames[2]
          /\ listeners[i].frames[2] = ev.arg[1]

\* C25: stopUserPolling(u) for a user without a schedule entry returns
\* normally and changes nothing: the map, the armed timers (of every user),
\* the handlers in flight, the listeners and the store stay as they were
C25_StopAbsentIsNoOp ==
    [][(ev'.type = "stop" /\ activeTimers[ev'.user] = 0) =>
          /\ ev'.out = "absent"
          /\ UNCHANGED <<activeTimers, armed, tasks, listeners, store>>]_vars

\* stop of a user without an entry while another user is scheduled and a
\* viewer is connected
C25_Witness ==
    /\ ev.type = "stop" /\ ev.out = "absent"
    /\ activeTimers[ev.user] = 0
    /\ \E u \in Users \ {ev.user} : activeTimers[u] # 0 /\ Cardinality(TimersOf(u)) = 1
    /\ Len(listeners) > 0

\* C30: the sink is called once per cycle, and whatever it answers the
\* sample of the cycle is written to every listener of the user
C30_SinkFailureStillPublishes ==
    [][ev'.type \in {"emit", "sink_failed"} =>
          /\ BagCardinality(tasks') = BagCardinality(tasks) - 1
          /\ \A t \in BagToSet(tasks') : CopiesIn(t, tasks') <= CopiesIn(t, tasks)
          /\ Len(listeners') = Len(listeners)
          /\ \A i \in DOMAIN listeners :
                listeners[i].user = ev'.user =>
                   Len(listeners'[i].frames) = Len(listeners[i].frames) + 1]_vars

\* C26: with a server that accepts each refresh token once, overlapping
\* get(u) calls never end with the record of u deleted: once a refresh was
\* granted and no call is in flight, the store holds the pair issued last
C26_RotationKeepsCredential ==
    \A u \in Users :
       (NTasks = 0 /\ srvGen[u] > 1) =>
          /\ store[u] # Null
          /\ store[u].accessToken = srvGen[u]
          /\ store[u].refreshToken = srvGen[u]

\* C27: once /disconnect has deleted the record of u (its handler is waiting
\* for req.logout), the set() of a refresh that was in flight for u does not
\* write a record of u back
C27_DisconnectedStaysDeleted ==
    [][\A d \in At("logout") : \A r \in At("set") :
          (/\ r.user = d.user
           /\ r.kind \notin {"auth", "settings"}
           /\ CopiesIn(r, tasks') < CopiesIn(r, tasks)) => store'[d.user] = Null]_vars

\* no settings request, disconnect or refresh of u is in flight
Settled(u) ==
    \A t \in BagToSet(tasks) :
       t.user = u => /\ t.kind \notin {"settings", "disconnect"}
                     /\ t.pc \notin {"refresh", "set", "delete"}

\* C28: whenever no settings request, disconnect or refresh of u is in
\* flight, u has a schedule entry exactly when the stored record of u has
\* the polling flag enabled
C28_ScheduleMatchesFlag ==
    \A u \in Users : Settled(u) => (activeTimers[u] # 0 <=> Enabled(store[u]))

\* a cycle of u got a record from tokenStorage.get's read in this step and
\* sends a request with it: to the token endpoint (the record has expired)
\* or to the metric source
CycleCalls(u) ==
    /\ ev'.user = u
    /\ \/ ev'.type = "refresh_request"
       \/ ev'.type = "getRaw" /\ ev'.ret = "cred"
    /\ \E t \in At("getRaw") :
          t.kind = "cycle" /\ t.user = u /\ CopiesIn(t, tasks') < CopiesIn(t, tasks)

\* C29: after a rejected refresh has deleted the record of u, no cycle of u
\* sends a request to the token endpoint or the metric source unless a
\* credential has been stored for u again
C29_NoCallsAfterPurge ==
    [][\A u \in purged :
          CycleCalls(u) => store[u] # Null /\ "accessToken" \in DOMAIN store[u]]_vars

\* the stored row of u decrypts and has the polling flag enabled
FlagStored(u) == store[u] # Null /\ store[u] # Corrupt /\ Enabled(store[u])

C24_CorruptRowIsAbsent ==
    [][/\ (/\ ev'.type \in {"getRaw", "refresh_request", "revoke_read"}
           /\ store[ev'.user] = Corrupt) =>
            /\ ev'.type # "refresh_request"
            /\ ev'.ret = "null" /\ ev'.cred = Null
            /\ ev'.out \in {"none", "null", "disabled"}
            /\ UNCHANGED <<store, activeTimers, armed>>
            /\ BagCardinality(tasks') <= BagCardinality(tasks)
       /\ ev'.type = "boot" =>
            /\ store' = store
            /\ \A u \in Users :
                  store[u] = Corrupt =>
                     /\ \A i \in DOMAIN ev'.arg : ev'.arg[i] # u
                     /\ activeTimers'[u] = activeTimers[u]
            /\ \A u \in Users :
                  (ev'.out = "read" /\ FlagStored(u)) => activeTimers'[u] # 0]_vars

\* a cycle of a scheduled user found the user's row corrupt and was skipped;
\* the other user, resumed by the bootstrap, is still scheduled
C24_Witness ==
    /\ ev.type = "getRaw" /\ ev.ret = "null" /\ ev.out = "null"
    /\ store[ev.user] = Corrupt
    /\ activeTimers[ev.user] # 0 /\ Cardinality(TimersOf(ev.user)) = 1
    /\ \E u \in Users \ {ev.user} : FlagStored(u) /\ activeTimers[u] # 0

\* listeners of u that do `during` while they are called
Doing(u, during) ==
    {i \in DOMAIN listeners : listeners[i].user = u /\ listeners[i].during = during}

Resumed(s) == CopiesIn(s, tasks') < CopiesIn(s, tasks)

\* a handler reached the await t in this step
Reached(t) == CopiesIn(t, tasks') > CopiesIn(t, tasks)

\* C31: a cycle sends its metric request only in the step in which
\* tokenStorage.get handed it a credential of its user, calls the sink only
\* in the step in which the metric source answered with a record, emits only
\* in the step in which the sink answered, each with the userId of the
\* cycle, and no step of a cycle starts a second request
C31_CycleStepsInOrder ==
    [][/\ \A t \in BagToSet(tasks') :
             (t.kind = "cycle" /\ Reached(t)) =>
                CASE t.pc = "fetch" ->
                        /\ ev'.user = t.user
                        /\ ev'.ret = "cred" /\ "accessToken" \in DOMAIN ev'.cred
                        /\ \E s \in At("getRaw") \cup At("set") :
                              s.kind = "cycle" /\ s.user = t.user /\ Resumed(s)
                  [] t.pc = "sink" ->
                        /\ ev'.type = "fetched" /\ ev'.arg = <<"record">>
                        /\ ev'.user = t.user /\ t.td.user_id = t.user
                        /\ \E s \in At("fetch") :
                              s.kind = "cycle" /\ s.user = t.user /\ Resumed(s)
                  [] OTHER -> TRUE
       /\ ev'.type = "emit" =>
             \E s \in At("sink") :
                /\ s.kind = "cycle" /\ s.user = ev'.user /\ Resumed(s)
                /\ ev'.arg = <<s.td>> /\ s.td.user_id = ev'.user
       /\ CycleStepped => BagCardinality(tasks') <= BagCardinality(tasks)]_vars

\* C32: from every state in which u has a schedule entry, a new cycle of u
\* begins later on the timer, or stopUserPolling(u) is called; so while the
\* schedule is not stopped the cycles of u begin again and again, whatever
\* the outcome of the cycles before
C32_ArmedScheduleKeepsPolling ==
    \A u \in VaultUsers :
       (activeTimers[u] # 0) ~>
           (ev.user = u /\ (ev.type = "timer" \/ (ev.type = "stop" /\ ev.out = "stopped")))

\* the timer began a cycle of u after a rejected refresh of an earlier cycle
\* had deleted the record of u
C32_Witness ==
    /\ ev.type = "timer"
    /\ ev.user \in purged /\ store[ev.user] = Null
    /\ activeTimers[ev.user] # 0

\* the listeners of user b, in the order they were added
ListenersOf(ls, b) == SelectSeq(ls, LAMBDA l : l.user = b)

\* C33: a step of user a (a call for a, a step of a's cycle, refresh,
\* settings request or disconnect, a viewer of a coming or going) leaves
\* what belongs to any other user b as it was: the schedule entry and the
\* timer, the stored record and the pair the server accepts, the listeners
\* with what they have written, and the handlers of b in flight
C33_UsersIndependent ==
    [][ev'.user \in Users =>
          \A b \in Users \ {ev'.user} :
             /\ activeTimers'[b] = activeTimers[b]
             /\ {tm \in armed' : tm.user = b} = TimersOf(b)
             /\ store'[b] = store[b]
             /\ srvGen'[b] = srvGen[b]
             /\ (b \in purged') = (b \in purged)
             /\ ListenersOf(listeners', b) = ListenersOf(listeners, b)
             /\ \A t \in BagToSet(tasks) \cup BagToSet(tasks') :
                   t.user = b => CopiesIn(t, tasks') = CopiesIn(t, tasks)]_vars

\* the rejected refresh of one user has just deleted that user's record,
\* while the other user is scheduled with a cycle in flight, a stored
\* credential and a viewer
C33_Witness ==
    /\ ev.type = "deleted" /\ ev.user \in purged
    /\ \E b \in Users \ {ev.user} :
          /\ activeTimers[b] # 0 /\ Cardinality(TimersOf(b)) = 1
          /\ store[b] # Null
          /\ Cycles(tasks, b) = 1
          /\ \E i \in DOMAIN listeners : listeners[i].user = b

\* C34: every frame written to a viewer of a is a sample of a, and what is
\* written to a viewer depends on the samples of other users in no way: an
\* emit for b leaves the frames of a's viewers as they are whatever its
\* sample, an emit for a appends a's sample, and no other step writes
C34_ViewerIsolation ==
    [][/\ \A i \in DOMAIN listeners' :
             \A k \in DOMAIN listeners'[i].frames :
                listeners'[i].frames[k].user_id = listeners'[i].user
       /\ ev'.type = "emit" =>
             /\ ev'.arg[1].user_id = ev'.user
             /\ Len(listeners') = Len(listeners)
             /\ \A i \in DOMAIN listeners :
                   listeners'[i].frames =
                       IF listeners[i].user = ev'.user
                       THEN Append(listeners[i].frames, ev'.arg[1])
                       ELSE listeners[i].frames
       /\ ev'.type \notin {"emit", "connect", "close"} => listeners' = listeners]_vars

\* b has just published a sample, of either value, to no viewer of its
\* own; the viewer of a, connected at the time, holds the one sample of a
C34_Witness ==
    /\ ev.type = "emit" /\ ev.arg[1].strain \in StrainValues \ {1}
    /\ Len(listeners) > 0
    /\ \A j \in DOMAIN listeners :
          /\ listeners[j].user # ev.user
          /\ Len(listeners[j].frames) = 1
          /\ listeners[j].frames[1].user_id = listeners[j].user

\* C35: every registered listener belongs to a viewer connection that is
\* open (with one listener for each connection, the listeners are as many as
\* the open connections), and nothing is written to a closed connection
C35_SubscribedWhileOpen ==
    \A i \in DOMAIN listeners :
       /\ listeners[i].open
       /\ listeners[i].frames = listeners[i].due

\* a write of the table failed in this step
WriteFailed ==
    ev'.type \in {"authorize_failed", "settings_failed", "set_failed",
                  "delete_failed", "disconnect_failed"}

\* C36: a failed set or delete leaves the table as it was and throws to its
\* caller: getUser and POST /settings/strain-polling end there, refreshToken
\* goes to its catch block, tokenStorage.get returns null, /disconnect
\* answers 500; after a failed write of the flag no start and no stop is
\* performed
C36_FailedWriteChangesNothing ==
    [][WriteFailed =>
          /\ store' = store
          /\ \E t \in BagToSet(tasks) :
                /\ t.user = ev'.user /\ Resumed(t)
                /\ CASE ev'.type = "set_failed" ->
                          tasks' = Replace(t, [t EXCEPT !.pc = "delete", !.err = "persist"])
                     [] ev'.type = "delete_failed" ->
                          /\ ev'.ret = "null"
                          /\ t.kind = "cycle" => ev'.out = "null"
                          /\ tasks' = Remove(t)
                     [] ev'.type = "disconnect_failed" ->
                          ev'.out = "500" /\ tasks' = Remove(t)
                     [] OTHER -> tasks' = Remove(t)
          /\ ev'.type = "settings_failed" =>
                /\ activeTimers' = activeTimers /\ armed' = armed
                /\ \A u \in Users : Cycles(tasks', u) = Cycles(tasks, u)]_vars

\* the write of a settings POST failed while its user was scheduled and had a
\* record stored
C36_Witness ==
    /\ ev.type = "settings_failed"
    /\ activeTimers[ev.user] # 0 /\ Cardinality(TimersOf(ev.user)) = 1
    /\ store[ev.user] # Null /\ "accessToken" \in DOMAIN store[ev.user]

\* a request of a logged-in user is answered in this step
Answered ==
    \E t \in BagToSet(tasks) :
       /\ t.kind \in {"req", "strain"} /\ Resumed(t)
       /\ BagCardinality(tasks') < BagCardinality(tasks)

\* C37: a request that found no credential (no row, a failed read, a refresh
\* that was rejected or failed), whose metric request failed, or whose metric
\* answer was empty is answered with an error; none gets a value
C37_NoSilentDefault ==
    [][(/\ Answered
        /\ \/ ev'.ret = "null"
           \/ ev'.type = "answered" /\ ev'.arg # <<"record">>)
          => ev'.out \in {"401", "500", "error_body"}]_vars

\* what the schedule, the table and the emitter hold of user u
Holdings(u) ==
    <<activeTimers[u], TimersOf(u), store[u], ListenersOf(listeners, u), Cycles(tasks, u)>>

\* C38: a request without an authenticated session is answered 401 and
\* changes nothing; nothing ever changes for a user without an authenticated
\* session, and a request of a logged-in user changes the schedule and the
\* record of that user only
C38_UnauthenticatedChangesNothing ==
    [][/\ ev'.type = "refused" =>
             /\ ev'.out = "401"
             /\ UNCHANGED <<store, srvGen, tasks, activeTimers, armed, purged, listeners>>
       /\ \A user \in ReqUsers :
             (user # Null /\ ~user.isAuthenticated) =>
                 /\ Holdings(user.userId)' = Holdings(user.userId)
                 /\ \A t \in BagToSet(tasks') : t.user # user.userId
       /\ ev'.user \in Users =>
             \A b \in Users \ {ev'.user} :
                /\ activeTimers'[b] = activeTimers[b]
                /\ {tm \in armed' : tm.user = b} = TimersOf(b)
                /\ store'[b] = store[b]]_vars

\* /disconnect without a session was refused while the logged-in user is
\* scheduled, has a record stored and a viewer connected
C38_Witness ==
    /\ ev.type = "refused" /\ ev.arg = <<"disconnect">>
    /\ \E u \in VaultUsers :
          /\ activeTimers[u] # 0 /\ Cardinality(TimersOf(u)) = 1
          /\ store[u] # Null
          /\ \E i \in DOMAIN listeners : listeners[i].user = u


====
